---- MODULE Spec2Model ----
(***************************************************************************)
(* Model of the flaky-test analysis engine of LogMiner-QA                  *)
(* (src/src/logminer_qa/flaky_test_analyzer.py) and of the /analyze-tests  *)
(* endpoint that feeds it (src/src/logminer_qa/server.py).                 *)
(*                                                                         *)
(* Numbers: Python floats are modelled as exact fractions [num, den] with  *)
(* den > 0.  pass_rate, fail_rate and flakiness_score are quotients of     *)
(* small counts and a doubling, so every comparison the code makes on      *)
(* them has the same outcome on the fractions.                             *)
(***************************************************************************)
EXTENDS Integers, Sequences, FiniteSets, TLC

VARIABLES
    config,      \* FlakyTestAnalyzer.config : FlakyTestConfig
    executions,  \* the List[TestExecution] handed to analyze / _classify_test
    results,     \* analyze's local list `results` (one FlakyTestResult per group)
    summary,     \* the FlakyTestSummary analyze returned, or NoSummary
    incoming,    \* the argument of the pending call: who calls, and the records
    pc,          \* position of the call in progress
    directory,   \* the results directory handed to load_results_from_directory
    pending,     \* the loader's loops: accepted files not parsed yet, in visiting order
    all_executions, \* the loader's local list all_executions
    raised,      \* the exception that left the loader, "none" while there is none
    origin,      \* history: for each record of all_executions, the parser call it came from
    visited,     \* history: the parser calls the loader made, in order
    raw_status,  \* the argument of the _normalize_status call
    normalized,  \* what _normalize_status returned last, "" before the call
    response     \* what the caller of analyze made of the summary: the body of the
                 \* endpoint's answer, the report the command line writes

analysisVars == <<config, executions, results, summary, incoming, response>>
loaderVars == <<directory, pending, all_executions, raised, origin, visited>>
normalizerVars == <<raw_status, normalized>>
vars == <<config, executions, results, summary, incoming, pc,
          directory, pending, all_executions, raised, origin, visited,
          raw_status, normalized, response>>

(***************************************************************************)
(* Bounds of the model.                                                    *)
(***************************************************************************)
\* longest execution history of one test handed to _classify_test
MaxRuns == 3
\* largest min_runs_required a configuration is drawn with
MaxMinRuns == 3
\* thresholds are drawn from the grid k / ThresholdDen
ThresholdDen == 2
\* longest record collection handed to analyze
MaxRecords == 5
\* most files in a results directory
MaxFiles == 2

(***************************************************************************)
(* Fractions.                                                              *)
(***************************************************************************)
Frac(n, d) == [num |-> n, den |-> d]
FracLess(a, b) == a.num * b.den < b.num * a.den
FracLeq(a, b) == a.num * b.den <= b.num * a.den
FracEq(a, b) == a.num * b.den = b.num * a.den
\* Python's min(a, b): b only when b < a
FracMin(a, b) == IF FracLess(b, a) THEN b ELSE a
FracZero == Frac(0, 1)
FracOne == Frac(1, 1)

(***************************************************************************)
(* Data classes.                                                           *)
(***************************************************************************)
CanonicalStatuses == {"passed", "failed", "error", "skipped"}

\* TestExecution(test_name, status, run_id, error_message); duration and
\* timestamp are read by no operation of the analyser and are left out.
\* error_message is a sequence of characters.
TestExecution(test_name, status, run_id, error_message) ==
    [test_name |-> test_name, status |-> status, run_id |-> run_id,
     error_message |-> error_message]

\* FlakyTestConfig; the thresholds are fractions.
FlakyTestConfig(flakiness_threshold, min_runs_required, true_failure_threshold) ==
    [flakiness_threshold |-> flakiness_threshold,
     min_runs_required |-> min_runs_required,
     true_failure_threshold |-> true_failure_threshold]

DefaultConfig == FlakyTestConfig(FracZero, 2, FracOne)

NoSummary == [total_tests_analyzed |-> -1]
NoResponse == [flaky_test_summary |-> NoSummary]

(***************************************************************************)
(* FlakyTestAnalyzer._classify_test                                        *)
(***************************************************************************)
\* sum(1 for e in execs if e.status == st)
CountStatus(execs, st) ==
    Cardinality({i \in DOMAIN execs : execs[i].status = st})

\* {e.run_id for e in execs if e.status in sts and e.run_id}
RunIdsWithStatus(execs, sts) ==
    {execs[i].run_id : i \in {j \in DOMAIN execs :
                                 execs[j].status \in sts /\ execs[j].run_id # ""}}

\* {e.error_message for e in execs if e.error_message}
DistinctMessages(execs) ==
    {execs[i].error_message : i \in {j \in DOMAIN execs : execs[j].error_message # <<>>}}

\* mutant of LowConfidenceClassification: the two equality tests exchanged
LowConfidenceClassificationSwapped(combined_fails, effective_runs) ==
    IF combined_fails = 0 THEN "true_failure"
    ELSE IF combined_fails = effective_runs THEN "stable"
    ELSE "flaky"

\* the branch taken when 0 < effective_runs < min_runs_required
LowConfidenceClassification(combined_fails, effective_runs) ==
    IF combined_fails = effective_runs THEN "true_failure"
    ELSE IF combined_fails = 0 THEN "stable"
    ELSE "flaky"

\* mutant of ScoreOfRates: the doubling left out
ScoreOfRatesUndoubled(pass_count, combined_fails, effective_runs) ==
    FracMin(Frac(pass_count, effective_runs), Frac(combined_fails, effective_runs))

\* 2 * min(pass_rate, fail_rate), both rates over effective_runs > 0
ScoreOfRates(pass_count, combined_fails, effective_runs) ==
    LET fail_rate == Frac(combined_fails, effective_runs)
        pass_rate == Frac(pass_count, effective_runs)
        m == FracMin(pass_rate, fail_rate)
    IN  Frac(2 * m.num, m.den)

\* mutant of ConfidentClassification: flaky from a score that reaches the
\* threshold, whatever the counts
ConfidentClassificationByScoreAlone(cfg, pass_count, combined_fails, effective_runs) ==
    LET fail_rate == Frac(combined_fails, effective_runs)
        flakiness_score == ScoreOfRates(pass_count, combined_fails, effective_runs)
    IN  IF FracLeq(cfg.true_failure_threshold, fail_rate) THEN "true_failure"
        ELSE IF FracLeq(cfg.flakiness_threshold, flakiness_score) THEN "flaky"
        ELSE "stable"

\* the branch taken when effective_runs >= min_runs_required and effective_runs > 0
ConfidentClassification(cfg, pass_count, combined_fails, effective_runs) ==
    LET fail_rate == Frac(combined_fails, effective_runs)
        flakiness_score == ScoreOfRates(pass_count, combined_fails, effective_runs)
    IN  IF FracLeq(cfg.true_failure_threshold, fail_rate) THEN "true_failure"
        ELSE IF /\ FracLess(cfg.flakiness_threshold, flakiness_score)
                /\ combined_fails > 0
                /\ pass_count > 0
             THEN "flaky"
        ELSE "stable"

\* mutant of Classification: effective_runs = min_runs_required counted as
\* insufficient
ClassificationBoundaryInsufficient(cfg, pass_count, combined_fails, effective_runs) ==
    IF effective_runs = 0 THEN "always_skipped"
    ELSE IF effective_runs <= cfg.min_runs_required
         THEN LowConfidenceClassification(combined_fails, effective_runs)
    ELSE ConfidentClassification(cfg, pass_count, combined_fails, effective_runs)

\* mutant of Classification: the sample-size test made before the
\* effective_runs = 0 test
ClassificationSampleSizeFirst(cfg, pass_count, combined_fails, effective_runs) ==
    IF effective_runs < cfg.min_runs_required
    THEN LowConfidenceClassification(combined_fails, effective_runs)
    ELSE IF effective_runs = 0 THEN "always_skipped"
    ELSE ConfidentClassification(cfg, pass_count, combined_fails, effective_runs)

\* the if / elif / else of _classify_test
Classification(cfg, pass_count, combined_fails, effective_runs) ==
    IF effective_runs = 0 THEN "always_skipped"
    ELSE IF effective_runs < cfg.min_runs_required
         THEN LowConfidenceClassification(combined_fails, effective_runs)
    ELSE ConfidentClassification(cfg, pass_count, combined_fails, effective_runs)

FlakinessScore(pass_count, combined_fails, effective_runs) ==
    IF effective_runs = 0 THEN FracZero
    ELSE ScoreOfRates(pass_count, combined_fails, effective_runs)

\* fail_run_ids, pass_run_ids and error_messages are lists built from sets:
\* their order is whatever the set iteration gives, so they are kept as sets.
_classify_test(cfg, test_name, execs) ==
    LET pass_count == CountStatus(execs, "passed")
        fail_count == CountStatus(execs, "failed")
        error_count == CountStatus(execs, "error")
        skip_count == CountStatus(execs, "skipped")
        effective_runs == pass_count + fail_count + error_count
        combined_fails == fail_count + error_count
    IN  [test_name |-> test_name,
         total_runs |-> Len(execs),
         pass_count |-> pass_count,
         fail_count |-> fail_count,
         error_count |-> error_count,
         skip_count |-> skip_count,
         flakiness_score |-> FlakinessScore(pass_count, combined_fails, effective_runs),
         classification |-> Classification(cfg, pass_count, combined_fails, effective_runs),
         fail_run_ids |-> RunIdsWithStatus(execs, {"failed", "error"}),
         pass_run_ids |-> RunIdsWithStatus(execs, {"passed"}),
         error_messages |-> DistinctMessages(execs)]

(***************************************************************************)
(* FlakyTestAnalyzer.analyze                                               *)
(***************************************************************************)
\* mutant of GroupKeys: a key per record, seen before or not
GroupKeysPerRecord(execs) == [i \in DOMAIN execs |-> execs[i].test_name]

\* keys of `grouped` in insertion order: test names by first appearance
RECURSIVE GroupKeys(_)
GroupKeys(execs) ==
    IF execs = <<>> THEN <<>>
    ELSE LET front == SubSeq(execs, 1, Len(execs) - 1)
             keys == GroupKeys(front)
             name == execs[Len(execs)].test_name
         IN  IF \E i \in DOMAIN keys : keys[i] = name THEN keys
             ELSE Append(keys, name)

\* mutant of Group: only the records of the test that follow one another, from
\* its first record on
GroupOfAdjacent(execs, test_name) ==
    LET of == {i \in DOMAIN execs : execs[i].test_name = test_name}
        first == CHOOSE i \in of : \A j \in of : i <= j
        others == {i \in DOMAIN execs : i > first /\ execs[i].test_name # test_name}
        stop == IF others = {} THEN Len(execs) + 1
                ELSE CHOOSE i \in others : \A j \in others : i <= j
    IN  IF of = {} THEN <<>> ELSE SubSeq(execs, first, stop - 1)

\* grouped[test_name]: the records of one test, in input order
Group(execs, test_name) ==
    LET IsOf(e) == e.test_name = test_name
    IN  SelectSeq(execs, IsOf)

\* [r for r in results if r.classification == c]
WithClassification(rs, c) ==
    LET Is(r) == r.classification = c
    IN  SelectSeq(rs, Is)

\* sorted(..., key=flakiness_score, reverse=True): stable, so an element goes
\* after every element whose score is not smaller
RECURSIVE InsertByScoreDesc(_, _)
InsertByScoreDesc(sorted, r) ==
    IF sorted = <<>> THEN <<r>>
    ELSE IF FracLess(Head(sorted).flakiness_score, r.flakiness_score)
         THEN <<r>> \o sorted
    ELSE <<Head(sorted)>> \o InsertByScoreDesc(Tail(sorted), r)

\* mutant of SortByScoreDesc: the sort left out
SortByScoreDescOmitted(rs) == rs

RECURSIVE SortByScoreDesc(_)
SortByScoreDesc(rs) ==
    IF rs = <<>> THEN <<>>
    ELSE InsertByScoreDesc(SortByScoreDesc(SubSeq(rs, 1, Len(rs) - 1)), rs[Len(rs)])

\* the list `results` of analyze
ClassifyAll(cfg, execs) ==
    LET keys == GroupKeys(execs)
    IN  [i \in 1..Len(keys) |-> _classify_test(cfg, keys[i], Group(execs, keys[i]))]

EmptyMetadata == [k \in {} |-> 0]

Metadata(cfg, execs) ==
    [total_executions |-> Len(execs),
     unique_runs |-> Cardinality({execs[i].run_id :
                                    i \in {j \in DOMAIN execs : execs[j].run_id # ""}}),
     config |-> cfg]

analyze(cfg, execs) ==
    IF execs = <<>>
    THEN [total_tests_analyzed |-> 0,
          flaky_tests |-> <<>>,
          true_failures |-> <<>>,
          stable_tests |-> 0,
          always_skipped |-> 0,
          overall_flakiness_rate |-> FracZero,
          metadata |-> EmptyMetadata]
    ELSE LET rs == ClassifyAll(cfg, execs)
             flaky == SortByScoreDesc(WithClassification(rs, "flaky"))
             total == Len(rs)
         IN  [total_tests_analyzed |-> total,
              flaky_tests |-> flaky,
              true_failures |-> WithClassification(rs, "true_failure"),
              stable_tests |-> Len(WithClassification(rs, "stable")),
              always_skipped |-> Len(WithClassification(rs, "always_skipped")),
              overall_flakiness_rate |->
                  IF total > 0 THEN Frac(Len(flaky), total) ELSE FracZero,
              metadata |-> Metadata(cfg, execs)]

(***************************************************************************)
(* FlakyTestResult.as_dict, FlakyTestSummary.as_dict, generate_tests       *)
(***************************************************************************)
\* most error messages as_dict lists for one test
MaxShownMessages == 5
\* most characters of the error generate_tests quotes
MaxHintLength == 120

\* round(x, 4) and f"{x:.2f}" of a fraction x >= 0, as a fraction
Rounded(x, unit) == Frac((2 * x.num * unit + x.den) \div (2 * x.den), unit)

\* error_messages is list(<a set>): its order is any.  What the report reads
\* of an order is error_messages[:5], kept as a set, and error_messages[0].
ListOrders(error_messages) ==
    IF error_messages = {}
    THEN {[shown |-> {}, first |-> <<>>]}
    ELSE LET n == IF Cardinality(error_messages) < MaxShownMessages
                  THEN Cardinality(error_messages) ELSE MaxShownMessages
             prefixes == {ms \in SUBSET error_messages : Cardinality(ms) = n}
         IN  UNION {{[shown |-> ms, first |-> m] : m \in ms} : ms \in prefixes}

\* an order for each result of a list
Orders(rs) ==
    {f \in [DOMAIN rs -> UNION {ListOrders(rs[i].error_messages) : i \in DOMAIN rs}] :
        \A i \in DOMAIN rs : f[i] \in ListOrders(rs[i].error_messages)}

FlakyTestResult_as_dict(r, order) ==
    [test_name |-> r.test_name,
     total_runs |-> r.total_runs,
     pass_count |-> r.pass_count,
     fail_count |-> r.fail_count,
     error_count |-> r.error_count,
     skip_count |-> r.skip_count,
     flakiness_score |-> Rounded(r.flakiness_score, 10000),
     classification |-> r.classification,
     fail_run_ids |-> r.fail_run_ids,
     pass_run_ids |-> r.pass_run_ids,
     error_messages |-> order.shown]

FlakyTestSummary_as_dict(s, flaky_orders, failure_orders) ==
    [total_tests_analyzed |-> s.total_tests_analyzed,
     flaky_test_count |-> Len(s.flaky_tests),
     true_failure_count |-> Len(s.true_failures),
     stable_test_count |-> s.stable_tests,
     always_skipped_count |-> s.always_skipped,
     overall_flakiness_rate |-> Rounded(s.overall_flakiness_rate, 10000),
     flaky_tests |-> [i \in DOMAIN s.flaky_tests |->
                         FlakyTestResult_as_dict(s.flaky_tests[i], flaky_orders[i])],
     true_failures |-> [i \in DOMAIN s.true_failures |->
                           FlakyTestResult_as_dict(s.true_failures[i], failure_orders[i])],
     metadata |-> s.metadata]

\* the scenario of a flaky test, kept as the values its text interpolates
FlakyScenario(test) ==
    [feature |-> "Flaky test",
     test_name |-> test.test_name,
     flakiness_score |-> Rounded(test.flakiness_score, 100),
     pass_count |-> test.pass_count,
     fail_count |-> test.fail_count,
     total_runs |-> test.total_runs]

\* the scenario of a true failure; first is error_messages[0]
FailureScenario(test, first) ==
    LET error_hint == IF test.error_messages # {}
                      THEN IF Len(first) <= MaxHintLength THEN first
                           ELSE SubSeq(first, 1, MaxHintLength)
                      ELSE "unknown error"
    IN  [feature |-> "True failure",
         test_name |-> test.test_name,
         fail_count |-> test.fail_count,
         total_runs |-> test.total_runs,
         error_hint |-> error_hint]

\* mutant of generate_tests: the true failures before the flaky tests
GenerateTestsFailuresFirst(s, failure_orders) ==
    [scenarios |->
         [i \in DOMAIN s.true_failures |->
             FailureScenario(s.true_failures[i], failure_orders[i].first)]
         \o [i \in DOMAIN s.flaky_tests |-> FlakyScenario(s.flaky_tests[i])],
     summary |-> s]

\* the list generate_tests returns, one scenario per flaky test and then one
\* per true failure, and its argument as the call leaves it
generate_tests(s, failure_orders) ==
    [scenarios |->
         [i \in DOMAIN s.flaky_tests |-> FlakyScenario(s.flaky_tests[i])]
         \o [i \in DOMAIN s.true_failures |->
                FailureScenario(s.true_failures[i], failure_orders[i].first)],
     summary |-> s]

(***************************************************************************)
(* Strings.  str.lower, str.strip, Path.stem, Path.suffix, float() and the *)
(* order of names are tables over the strings the model uses.              *)
(***************************************************************************)
\* str.lower
StrLower(s) ==
    CASE s = "  ERROR" -> "  error"
      [] s = "  ERRORED" -> "  errored"
      [] s = "  FAIL" -> "  fail"
      [] s = "  FAILED" -> "  failed"
      [] s = "  FAILURE" -> "  failure"
      [] s = "  IGNORED" -> "  ignored"
      [] s = "  N/A" -> "  n/a"
      [] s = "  OK" -> "  ok"
      [] s = "  PASS" -> "  pass"
      [] s = "  PASSED" -> "  passed"
      [] s = "  PASSING" -> "  passing"
      [] s = "  PENDING" -> "  pending"
      [] s = "  SKIP" -> "  skip"
      [] s = "  SKIPPED" -> "  skipped"
      [] s = "  SUCCESS" -> "  success"
      [] s = "  UNKNOWN" -> "  unknown"
      [] s = " Passed " -> " passed "
      [] s = ".XML" -> ".xml"
      [] s = "ERROR" -> "error"
      [] s = "ERRORED" -> "errored"
      [] s = "Error" -> "error"
      [] s = "Error " -> "error "
      [] s = "Errored" -> "errored"
      [] s = "Errored " -> "errored "
      [] s = "FAIL" -> "fail"
      [] s = "FAILED" -> "failed"
      [] s = "FAILURE" -> "failure"
      [] s = "Fail" -> "fail"
      [] s = "Fail " -> "fail "
      [] s = "Failed" -> "failed"
      [] s = "Failed " -> "failed "
      [] s = "Failure" -> "failure"
      [] s = "Failure " -> "failure "
      [] s = "IGNORED" -> "ignored"
      [] s = "Ignored" -> "ignored"
      [] s = "Ignored " -> "ignored "
      [] s = "N/A" -> "n/a"
      [] s = "N/a" -> "n/a"
      [] s = "N/a " -> "n/a "
      [] s = "OK" -> "ok"
      [] s = "Ok" -> "ok"
      [] s = "Ok " -> "ok "
      [] s = "PASS" -> "pass"
      [] s = "PASSED" -> "passed"
      [] s = "PASSING" -> "passing"
      [] s = "PENDING" -> "pending"
      [] s = "Pass" -> "pass"
      [] s = "Pass " -> "pass "
      [] s = "Passed" -> "passed"
      [] s = "Passed " -> "passed "
      [] s = "Passing" -> "passing"
      [] s = "Passing " -> "passing "
      [] s = "Pending" -> "pending"
      [] s = "Pending " -> "pending "
      [] s = "SKIP" -> "skip"
      [] s = "SKIPPED" -> "skipped"
      [] s = "SUCCESS" -> "success"
      [] s = "Skip" -> "skip"
      [] s = "Skip " -> "skip "
      [] s = "Skipped" -> "skipped"
      [] s = "Skipped " -> "skipped "
      [] s = "Success" -> "success"
      [] s = "Success " -> "success "
      [] s = "UNKNOWN" -> "unknown"
      [] s = "Unknown" -> "unknown"
      [] s = "Unknown " -> "unknown "
      [] OTHER -> s

\* str.strip
StrStrip(s) ==
    CASE s = " " -> ""
      [] s = "  " -> ""
      [] s = "  ERROR" -> "ERROR"
      [] s = "  ERRORED" -> "ERRORED"
      [] s = "  FAIL" -> "FAIL"
      [] s = "  FAILED" -> "FAILED"
      [] s = "  FAILURE" -> "FAILURE"
      [] s = "  IGNORED" -> "IGNORED"
      [] s = "  N/A" -> "N/A"
      [] s = "  OK" -> "OK"
      [] s = "  PASS" -> "PASS"
      [] s = "  PASSED" -> "PASSED"
      [] s = "  PASSING" -> "PASSING"
      [] s = "  PENDING" -> "PENDING"
      [] s = "  SKIP" -> "SKIP"
      [] s = "  SKIPPED" -> "SKIPPED"
      [] s = "  SUCCESS" -> "SUCCESS"
      [] s = "  UNKNOWN" -> "UNKNOWN"
      [] s = "  error" -> "error"
      [] s = "  errored" -> "errored"
      [] s = "  fail" -> "fail"
      [] s = "  failed" -> "failed"
      [] s = "  failure" -> "failure"
      [] s = "  ignored" -> "ignored"
      [] s = "  n/a" -> "n/a"
      [] s = "  ok" -> "ok"
      [] s = "  pass" -> "pass"
      [] s = "  passed" -> "passed"
      [] s = "  passing" -> "passing"
      [] s = "  pending" -> "pending"
      [] s = "  skip" -> "skip"
      [] s = "  skipped" -> "skipped"
      [] s = "  success" -> "success"
      [] s = "  unknown" -> "unknown"
      [] s = " Passed " -> "Passed"
      [] s = " error " -> "error"
      [] s = " errored " -> "errored"
      [] s = " fail " -> "fail"
      [] s = " failed " -> "failed"
      [] s = " failure " -> "failure"
      [] s = " ignored " -> "ignored"
      [] s = " n/a " -> "n/a"
      [] s = " ok " -> "ok"
      [] s = " pass " -> "pass"
      [] s = " passed " -> "passed"
      [] s = " passing " -> "passing"
      [] s = " pending " -> "pending"
      [] s = " skip " -> "skip"
      [] s = " skipped " -> "skipped"
      [] s = " success " -> "success"
      [] s = " unknown " -> "unknown"
      [] s = "Error " -> "Error"
      [] s = "Errored " -> "Errored"
      [] s = "Fail " -> "Fail"
      [] s = "Failed " -> "Failed"
      [] s = "Failure " -> "Failure"
      [] s = "Ignored " -> "Ignored"
      [] s = "N/a " -> "N/a"
      [] s = "Ok " -> "Ok"
      [] s = "Pass " -> "Pass"
      [] s = "Passed " -> "Passed"
      [] s = "Passing " -> "Passing"
      [] s = "Pending " -> "Pending"
      [] s = "Skip " -> "Skip"
      [] s = "Skipped " -> "Skipped"
      [] s = "Success " -> "Success"
      [] s = "Unknown " -> "Unknown"
      [] s = "error " -> "error"
      [] s = "errored " -> "errored"
      [] s = "fail " -> "fail"
      [] s = "failed " -> "failed"
      [] s = "failure " -> "failure"
      [] s = "ignored " -> "ignored"
      [] s = "n/a " -> "n/a"
      [] s = "ok " -> "ok"
      [] s = "pass " -> "pass"
      [] s = "passed " -> "passed"
      [] s = "passing " -> "passing"
      [] s = "pending " -> "pending"
      [] s = "skip " -> "skip"
      [] s = "skipped " -> "skipped"
      [] s = "success " -> "success"
      [] s = "unknown " -> "unknown"
      [] OTHER -> s

\* Path.suffix: from the last dot on, unless the name has no dot or only a
\* leading one
PathSuffix(name) ==
    CASE name = "report.xml" -> ".xml"
      [] name = "suite.XML" -> ".XML"
      [] name = "results.json" -> ".json"
      [] name = "ci.log" -> ".log"
      [] name = "out.txt" -> ".txt"
      [] name = "notes.md" -> ".md"
      [] OTHER -> ""

\* Path.stem: the name without its suffix
PathStem(name) ==
    CASE name = "report.xml" -> "report"
      [] name = "suite.XML" -> "suite"
      [] name = "results.json" -> "results"
      [] name = "ci.log" -> "ci"
      [] name = "out.txt" -> "out"
      [] name = "notes.md" -> "notes"
      [] OTHER -> name

\* the names of the model in ascending order, as sorted() orders paths
NamesAscending ==
    <<".xml", "ci.log", "nested", "notes.md", "out.txt", "report.xml",
      "results.json", "run_a", "run_b", "suite.XML">>

NameRank(name) == CHOOSE i \in DOMAIN NamesAscending : NamesAscending[i] = name

\* whether float(s) succeeds on the text s
IsFloatText(s) == s \in {"0", "0.5", "1.2"}

\* f"{classname}::{name}"
QualifiedName(classname, name) ==
    CASE classname = "Suite" /\ name = "test_a" -> "Suite::test_a"
      [] classname = "Suite" /\ name = "test_b" -> "Suite::test_b"
      [] classname = "Suite" /\ name = "unknown" -> "Suite::unknown"

\* msg[:500] on a sequence of characters
MaxMessageLength == 500
Truncate(msg) ==
    IF Len(msg) <= MaxMessageLength THEN msg ELSE SubSeq(msg, 1, MaxMessageLength)

(***************************************************************************)
(* _normalize_status                                                       *)
(***************************************************************************)
\* mutant of _normalize_status: the surrounding whitespace kept
NormalizeStatusWithoutStrip(raw0) ==
    LET raw == StrLower(raw0)
    IN  IF raw \in {"pass", "passed", "ok", "success"} THEN "passed"
        ELSE IF raw \in {"fail", "failed", "failure"} THEN "failed"
        ELSE IF raw \in {"error", "errored"} THEN "error"
        ELSE IF raw \in {"skip", "skipped", "ignored", "pending"} THEN "skipped"
        ELSE "failed"

_normalize_status(raw0) ==
    LET raw == StrLower(StrStrip(raw0))
    IN  IF raw \in {"pass", "passed", "ok", "success"} THEN "passed"
        ELSE IF raw \in {"fail", "failed", "failure"} THEN "failed"
        ELSE IF raw \in {"error", "errored"} THEN "error"
        ELSE IF raw \in {"skip", "skipped", "ignored", "pending"} THEN "skipped"
        ELSE "failed"

(***************************************************************************)
(* Files.  A file is what reading it gives: whether it can be opened,      *)
(* whether its bytes decode as UTF-8, whether its text is well-formed for  *)
(* its format, and the document the text denotes (an XML element, a JSON   *)
(* value, the whitespace-separated tokens of a log).                       *)
(***************************************************************************)
File(readable, decodable, wellformed, doc) ==
    [readable |-> readable, decodable |-> decodable,
     wellformed |-> wellformed, doc |-> doc]

\* what a parser call ends with: a returned list, or an exception
Return(records) == [raised |-> "none", records |-> records]
Raise(exception) == [raised |-> exception, records |-> <<>>]

\* a path of the results directory: dir is "" for the root itself
PathOf(dir, name, file) == [dir |-> dir, name |-> name, file |-> file]

(***************************************************************************)
(* parse_junit_xml                                                         *)
(***************************************************************************)
NoAttrs == [k \in {} |-> ""]
Element(tag, attrs, text, children) ==
    [tag |-> tag, attrs |-> attrs, text |-> text, children |-> children]

\* Element.get(key, default)
AttrGet(e, key, default) == IF key \in DOMAIN e.attrs THEN e.attrs[key] ELSE default

\* Element.findall(tag): the direct children with that tag, in document order
FindAll(e, tag) ==
    LET Is(c) == c.tag = tag
    IN  SelectSeq(e.children, Is)

\* whether Element.find(tag) is not None
Has(e, tag) == FindAll(e, tag) # <<>>

\* Element.find(tag): the first direct child with that tag
Find(e, tag) == Head(FindAll(e, tag))

RECURSIVE Flatten(_)
Flatten(seqs) == IF seqs = <<>> THEN <<>> ELSE Head(seqs) \o Flatten(Tail(seqs))

\* Element.findall(".//" + tag): the descendants with that tag, in document order
RECURSIVE FindAllDescendants(_, _)
FindAllDescendants(e, tag) ==
    Flatten([i \in DOMAIN e.children |->
                (IF e.children[i].tag = tag THEN <<e.children[i]>> ELSE <<>>)
                \o FindAllDescendants(e.children[i], tag)])

\* float(tc.get("time", "0") or "0") succeeds
TimeIsFloat(tc) ==
    LET t == AttrGet(tc, "time", "0")
    IN  IsFloatText(IF t = "" THEN "0" ELSE t)

\* the status of one test case, by the if / elif chain over its markers
CaseStatus(tc) ==
    IF Has(tc, "failure") THEN "failed"
    ELSE IF Has(tc, "error") THEN "error"
    ELSE IF Has(tc, "skipped") THEN "skipped"
    ELSE "passed"

\* the message of one test case: the marker's message attribute, else (for
\* failure and error) its text
CaseMessage(tc) ==
    IF Has(tc, "failure")
    THEN AttrGet(Find(tc, "failure"), "message", Find(tc, "failure").text)
    ELSE IF Has(tc, "error")
    THEN AttrGet(Find(tc, "error"), "message", Find(tc, "error").text)
    ELSE IF Has(tc, "skipped")
    THEN AttrGet(Find(tc, "skipped"), "message", <<>>)
    ELSE <<>>

\* the record appended for one test case
CaseRecord(tc, path, run_id) ==
    LET name == AttrGet(tc, "name", "unknown")
        classname == AttrGet(tc, "classname", "")
        full_name == IF classname # "" THEN QualifiedName(classname, name) ELSE name
    IN  TestExecution(full_name, CaseStatus(tc),
                      IF run_id # "" THEN run_id ELSE PathStem(path.name),
                      Truncate(CaseMessage(tc)))

\* ET.parse raises OSError for a file that cannot be opened (not caught) and
\* ParseError for bytes that are no well-formed XML (caught); float() raises
\* ValueError on the first test case whose time is no number (not caught)
parse_junit_xml(path, run_id) ==
    IF ~path.file.readable THEN Raise("OSError")
    ELSE IF ~path.file.decodable \/ ~path.file.wellformed THEN Return(<<>>)
    ELSE LET root == path.file.doc
             suites == IF root.tag = "testsuites"
                       THEN FindAllDescendants(root, "testsuite")
                       ELSE <<root>>
             cases == Flatten([i \in DOMAIN suites |-> FindAll(suites[i], "testcase")])
         IN  IF \E i \in DOMAIN cases : ~TimeIsFloat(cases[i])
             THEN Raise("ValueError")
             ELSE Return([i \in DOMAIN cases |-> CaseRecord(cases[i], path, run_id)])

(***************************************************************************)
(* parse_json_results                                                      *)
(***************************************************************************)
\* JSON values.  A JSON string is JsonString (a name, a status, a number
\* written as text) or JsonText (a message, as a sequence of characters).
JsonNull == [type |-> "null"]
JsonNumber(n) == [type |-> "number", value |-> n]
JsonString(s) == [type |-> "string", value |-> s]
JsonText(chars) == [type |-> "text", value |-> chars]
JsonList(items) == [type |-> "list", items |-> items]
JsonObject(fields) == [type |-> "object", fields |-> fields]

\* dict.get(key, default)
JsonGet(obj, key, default) ==
    IF key \in DOMAIN obj.fields THEN obj.fields[key] ELSE default

\* bool(v)
Truthy(v) ==
    CASE v.type = "null" -> FALSE
      [] v.type = "number" -> v.value # 0
      [] v.type = "string" -> v.value # ""
      [] v.type = "text" -> v.value # <<>>
      [] v.type = "list" -> v.items # <<>>
      [] v.type = "object" -> DOMAIN v.fields # {}

\* a or b
Or(a, b) == IF Truthy(a) THEN a ELSE b

\* float(record.get("duration", 0) or 0): "none" when it succeeds, else the
\* exception it raises
DurationError(record) ==
    LET d == Or(JsonGet(record, "duration", JsonNumber(0)), JsonNumber(0))
    IN  CASE d.type = "number" -> "none"
          [] d.type = "string" -> IF IsFloatText(d.value) THEN "none" ELSE "ValueError"
          [] OTHER -> "TypeError"

\* the record appended for one dict of the list; names and statuses of the
\* model's documents are JSON strings
JsonRecord(record, path, run_id) ==
    LET name == Or(JsonGet(record, "name", JsonNull),
                   Or(JsonGet(record, "test_name", JsonNull),
                      JsonGet(record, "testName", JsonString("unknown"))))
        status == Or(JsonGet(record, "status", JsonNull),
                     JsonGet(record, "result", JsonString("unknown")))
        message == Or(JsonGet(record, "message", JsonNull),
                      JsonGet(record, "error_message", JsonText(<<>>)))
    IN  TestExecution(name.value,
                      _normalize_status(StrLower(status.value)),
                      IF run_id # "" THEN run_id ELSE PathStem(path.name),
                      Truncate(message.value))

\* open() raises OSError (caught); reading raises UnicodeDecodeError for
\* bytes that are not UTF-8 (not caught); json.load raises JSONDecodeError
\* (caught); data.get raises AttributeError when the root is neither a list
\* nor an object (not caught); float() raises on the first dict whose
\* duration is no number (not caught)
parse_json_results(path, run_id) ==
    IF ~path.file.readable THEN Return(<<>>)
    ELSE IF ~path.file.decodable THEN Raise("UnicodeDecodeError")
    ELSE IF ~path.file.wellformed THEN Return(<<>>)
    ELSE LET data == path.file.doc
         IN  IF data.type \notin {"list", "object"} THEN Raise("AttributeError")
             ELSE LET records == IF data.type = "list" THEN data
                                 ELSE JsonGet(data, "test_results",
                                              JsonGet(data, "tests", JsonList(<<>>)))
                      IsDict(r) == r.type = "object"
                      dicts == IF records.type = "list"
                               THEN SelectSeq(records.items, IsDict) ELSE <<>>
                      bad == {i \in DOMAIN dicts : DurationError(dicts[i]) # "none"}
                  IN  IF records.type # "list" THEN Return(<<>>)
                      ELSE IF bad # {}
                      THEN Raise(DurationError(
                               dicts[CHOOSE i \in bad : \A j \in bad : i <= j]))
                      ELSE Return([i \in DOMAIN dicts |->
                                      JsonRecord(dicts[i], path, run_id)])

(***************************************************************************)
(* parse_text_log                                                          *)
(***************************************************************************)
\* the status _TEXT_RESULT_RE matches at the end of a token, "" when none:
\* the pattern is not anchored, so the end of a longer word matches too
StatusAtEnd(token) ==
    CASE token = "PASS" -> "PASS"
      [] token = "PASSED" -> "PASSED"
      [] token = "FAIL" -> "FAIL"
      [] token = "FAILED" -> "FAILED"
      [] token = "ERROR" -> "ERROR"
      [] token = "SKIP" -> "SKIP"
      [] token = "SKIPPED" -> "SKIPPED"
      [] token = "BYPASS" -> "PASS"
      [] OTHER -> ""

\* _TEXT_RESULT_RE.finditer: a token ending in a status, whitespace, the next
\* token; the search goes on after the match
RECURSIVE TextMatches(_)
TextMatches(tokens) ==
    IF Len(tokens) < 2 THEN <<>>
    ELSE IF StatusAtEnd(tokens[1]) # ""
         THEN <<[status |-> StatusAtEnd(tokens[1]), test_name |-> tokens[2]]>>
              \o TextMatches(SubSeq(tokens, 3, Len(tokens)))
    ELSE TextMatches(Tail(tokens))

\* read_text(errors="replace") raises OSError only (caught): undecodable
\* bytes are replaced, the tokens of doc are those of the replaced text
parse_text_log(path, run_id) ==
    IF ~path.file.readable THEN Return(<<>>)
    ELSE LET matches == TextMatches(path.file.doc)
         IN  Return([i \in DOMAIN matches |->
                        TestExecution(matches[i].test_name,
                                      _normalize_status(StrLower(matches[i].status)),
                                      IF run_id # "" THEN run_id ELSE PathStem(path.name),
                                      <<>>)])

(***************************************************************************)
(* _auto_detect_and_parse                                                  *)
(***************************************************************************)
ParserFor(path) ==
    LET suffix == StrLower(PathSuffix(path.name))
    IN  IF suffix = ".xml" THEN "parse_junit_xml"
        ELSE IF suffix = ".json" THEN "parse_json_results"
        ELSE "parse_text_log"

_auto_detect_and_parse(path, run_id) ==
    LET suffix == StrLower(PathSuffix(path.name))
    IN  IF suffix = ".xml" THEN parse_junit_xml(path, run_id)
        ELSE IF suffix = ".json" THEN parse_json_results(path, run_id)
        ELSE parse_text_log(path, run_id)

(***************************************************************************)
(* FlakyTestAnalyzer.load_results_from_directory                           *)
(***************************************************************************)
\* A directory: whether it exists, and its entries.  An entry has a name, a
\* kind ("file" or "dir"), a file (read when the kind is "file") and entries
\* (those of a subdirectory).
Entry(name, kind, file, entries) ==
    [name |-> name, kind |-> kind, file |-> file, entries |-> entries]

NoFile == File(FALSE, FALSE, FALSE, <<>>)
NoDirectory == [exists |-> FALSE, entries |-> {}]

\* sorted(...iterdir()): the entries in ascending order of name
RECURSIVE SortedByName(_)
SortedByName(entries) ==
    IF entries = {} THEN <<>>
    ELSE LET first == CHOOSE e \in entries :
                          \A f \in entries : NameRank(e.name) <= NameRank(f.name)
         IN  <<first>> \o SortedByName(entries \ {first})

AcceptedSuffixes == {".xml", ".json", ".log", ".txt"}

\* file_path.is_file() and file_path.suffix.lower() in (...)
Accepted(entry) ==
    entry.kind = "file" /\ StrLower(PathSuffix(entry.name)) \in AcceptedSuffixes

\* the parser calls of one directory's loop, in order
CallsIn(dir, entries, run_id) ==
    LET accepted == SelectSeq(SortedByName(entries), Accepted)
    IN  [i \in DOMAIN accepted |->
            [path |-> PathOf(dir, accepted[i].name, accepted[i].file),
             run_id |-> run_id]]

\* subdirs = sorted([d for d in directory.iterdir() if d.is_dir()])
Subdirs(d) == SortedByName({e \in d.entries : e.kind = "dir"})

\* mutant of ParserCalls: the subdirectory's name not handed to the parser
ParserCallsWithoutRunId(d) ==
    LET subdirs == Subdirs(d)
    IN  IF subdirs # <<>>
        THEN Flatten([i \in DOMAIN subdirs |->
                         CallsIn(subdirs[i].name, subdirs[i].entries, "")])
        ELSE CallsIn("", d.entries, "")

\* the parser calls the two loops make when none raises: by subdirectory
\* with run_id = subdir.name, or over the root with no run_id
ParserCalls(d) ==
    LET subdirs == Subdirs(d)
    IN  IF subdirs # <<>>
        THEN Flatten([i \in DOMAIN subdirs |->
                         CallsIn(subdirs[i].name, subdirs[i].entries, subdirs[i].name)])
        ELSE CallsIn("", d.entries, "")

(***************************************************************************)
(* Inputs.                                                                 *)
(***************************************************************************)
\* thresholds k / ThresholdDen, one step below 0 and one step above 1 included:
\* FlakyTestConfig validates nothing
Thresholds == {Frac(k, ThresholdDen) : k \in -1..(ThresholdDen + 1)}

Configs ==
    {FlakyTestConfig(ft, m, tft) :
        ft \in Thresholds, m \in 0..MaxMinRuns, tft \in Thresholds}

\* configurations the analyser is constructed with in the analysis runs
AnalysisConfigs ==
    {DefaultConfig,
     FlakyTestConfig(Frac(1, 1), 2, Frac(1, 1)),
     FlakyTestConfig(FracZero, 4, Frac(1, 2))}

\* a status string the Status Normalizer would map to passed; no parser emits it
RawStatuses == {"PASSED"}

\* records as the three parsers emit them: the status is canonical
ParserRecords ==
    {TestExecution("t1", st, "", <<>>) : st \in {"passed", "failed", "error"}}
    \cup {TestExecution("t2", st, "", <<>>) : st \in {"passed", "failed", "skipped"}}
    \cup {TestExecution("t3", "failed", "", <<>>)}

\* TestExecutionRecord items of an /analyze-tests request: status is any string
RequestRecords ==
    {TestExecution("t1", st, "", <<>>) : st \in {"passed", "failed"} \cup RawStatuses}
    \cup {TestExecution("t2", st, "", <<>>) : st \in {"passed", "failed", "skipped"}}

\* execution histories of one test, as _classify_test receives them
HistoryRecords ==
    {TestExecution("t1", st, "", <<>>) : st \in CanonicalStatuses \cup RawStatuses}

(***************************************************************************)
(* The analysis runs: one analyser, one call.                              *)
(***************************************************************************)
NoCall == [caller |-> "none", records |-> <<>>]

\* no directory is being loaded
LoaderIdle ==
    /\ directory = NoDirectory
    /\ pending = <<>>
    /\ all_executions = <<>>
    /\ raised = "none"
    /\ origin = <<>>
    /\ visited = <<>>

\* _normalize_status is not being called on its own
NormalizerIdle ==
    /\ raw_status = ""
    /\ normalized = ""

Init ==
    /\ config \in AnalysisConfigs
    /\ executions = <<>>
    /\ results = <<>>
    /\ summary = NoSummary
    /\ response = NoResponse
    /\ \E k \in 0..MaxRecords :
          \/ \E recs \in [1..k -> RequestRecords] :
                incoming = [caller |-> "endpoint", records |-> recs]
          \/ \E recs \in [1..k -> ParserRecords] :
                incoming = [caller |-> "loader", records |-> recs]
    /\ pc = "idle"
    /\ LoaderIdle
    /\ NormalizerIdle

\* POST /analyze-tests: an empty request is answered 400; otherwise every
\* TestExecutionRecord is copied field by field into a TestExecution and the
\* list is analysed (pipeline.analyze_test_results hands it to analyze)
analyze_tests ==
    /\ pc = "idle"
    /\ incoming.caller = "endpoint"
    /\ LET test_results == incoming.records
       IN  IF test_results = <<>>
           THEN /\ pc' = "http_400"
                /\ UNCHANGED <<executions, results, summary, response>>
           ELSE LET copied == [i \in DOMAIN test_results |->
                                  TestExecution(test_results[i].test_name,
                                                test_results[i].status,
                                                test_results[i].run_id,
                                                test_results[i].error_message)]
                    returned == analyze(config, copied)
                IN  /\ executions' = copied
                    /\ results' = ClassifyAll(config, copied)
                    /\ \E flaky_orders \in Orders(returned.flaky_tests),
                          failure_orders \in Orders(returned.true_failures) :
                          LET generated == generate_tests(returned, failure_orders)
                          IN  /\ response' =
                                     [flaky_test_summary |->
                                          FlakyTestSummary_as_dict(returned, flaky_orders,
                                                                   failure_orders),
                                      test_scenarios |-> generated.scenarios]
                              /\ summary' = generated.summary
                    /\ pc' = "responded"
    /\ UNCHANGED <<config, incoming>>
    /\ UNCHANGED loaderVars
    /\ UNCHANGED normalizerVars

\* FlakyTestAnalyzer.analyze called on records the parsers emitted
AnalyzeParsed ==
    /\ pc = "idle"
    /\ incoming.caller = "loader"
    /\ executions' = incoming.records
    /\ results' = IF incoming.records = <<>> THEN <<>>
                  ELSE ClassifyAll(config, incoming.records)
    /\ summary' = analyze(config, incoming.records)
    /\ pc' = "analyzed"
    /\ UNCHANGED <<config, incoming, response>>
    /\ UNCHANGED loaderVars
    /\ UNCHANGED normalizerVars

Next ==
    \/ analyze_tests
    \/ AnalyzeParsed

Spec == Init /\ [][Next]_vars

(***************************************************************************)
(* The classifier alone: _classify_test applied to one execution history   *)
(* under every configuration of the grid.                                  *)
(***************************************************************************)
InitClassify ==
    /\ config \in Configs
    /\ \E k \in 0..MaxRuns : executions \in [1..k -> HistoryRecords]
    /\ results = <<>>
    /\ summary = NoSummary
    /\ response = NoResponse
    /\ incoming = NoCall
    /\ pc = "idle"
    /\ LoaderIdle
    /\ NormalizerIdle

ClassifyTest ==
    /\ pc = "idle"
    /\ results' = <<_classify_test(config, "t1", executions)>>
    /\ pc' = "classified"
    /\ UNCHANGED <<config, executions, summary, incoming, response>>
    /\ UNCHANGED loaderVars
    /\ UNCHANGED normalizerVars

NextClassify == ClassifyTest

SpecClassify == InitClassify /\ [][NextClassify]_vars

(***************************************************************************)
(* The loader runs: one results directory is loaded file by file, and the  *)
(* loaded records are analysed under the default configuration.            *)
(***************************************************************************)
Chars(n) == [i \in 1..n |-> "x"]

\* <testsuite> of two cases: Suite::test_a failed with a message, test_b passed
XmlSuite ==
    Element("testsuite", NoAttrs, <<>>,
        <<Element("testcase", [name |-> "test_a", classname |-> "Suite", time |-> "0.5"],
                  <<>>, <<Element("failure", [message |-> Chars(4)], <<>>, <<>>)>>),
          Element("testcase", [name |-> "test_b"], <<>>, <<>>)>>)

\* <testsuites> of two suites: test_a passed (time=""), test_a errored with a
\* text and no message attribute
XmlSuites ==
    Element("testsuites", NoAttrs, <<>>,
        <<Element("testsuite", NoAttrs, <<>>,
              <<Element("testcase", [name |-> "test_a", time |-> ""], <<>>, <<>>)>>),
          Element("testsuite", NoAttrs, <<>>,
              <<Element("testcase", [name |-> "test_a"], <<>>,
                        <<Element("error", NoAttrs, Chars(3), <<>>)>>)>>)>>)

\* a case whose time attribute is no number
XmlBadTime ==
    Element("testsuite", NoAttrs, <<>>,
        <<Element("testcase", [name |-> "test_a", time |-> "abc"], <<>>, <<>>)>>)

\* <testsuite> of one failed case whose message is longer than msg[:500] keeps
XmlLongMessage ==
    Element("testsuite", NoAttrs, <<>>,
        <<Element("testcase", [name |-> "test_a"], <<>>,
                  <<Element("failure", [message |-> Chars(MaxMessageLength + 1)],
                            <<>>, <<>>)>>)>>)

XmlFiles ==
    {File(TRUE, TRUE, TRUE, XmlSuite),      \* well-formed
     File(TRUE, TRUE, TRUE, XmlLongMessage), \* well-formed, long message
     File(TRUE, TRUE, FALSE, <<>>),         \* no well-formed XML
     File(FALSE, TRUE, TRUE, XmlSuite),     \* cannot be opened
     File(TRUE, TRUE, TRUE, XmlBadTime)}    \* non-numeric time

\* [{"name": "test_a", "status": "PASSED", "duration": 1},
\*  {"test_name": "test_b", "result": "FAIL", "message": "..."}, 5]
JsonResultList ==
    JsonList(<<JsonObject([name |-> JsonString("test_a"), status |-> JsonString("PASSED"),
                           duration |-> JsonNumber(1)]),
               JsonObject([test_name |-> JsonString("test_b"), result |-> JsonString("FAIL"),
                           message |-> JsonText(Chars(4))]),
               JsonNumber(5)>>)

\* {"test_results": [{"name": "test_a", "status": " Passed "}], "tests": []}
JsonResultObject ==
    JsonObject([test_results |->
                    JsonList(<<JsonObject([name |-> JsonString("test_a"),
                                           status |-> JsonString(" Passed ")])>>),
                tests |-> JsonList(<<>>)])

\* {"tests": "oops"}
JsonNotAList == JsonObject([tests |-> JsonString("oops")])

\* [{"name": "test_a", "status": "passed", "duration": "fast"}]
JsonBadDuration ==
    JsonList(<<JsonObject([name |-> JsonString("test_a"), status |-> JsonString("passed"),
                           duration |-> JsonString("fast")])>>)

JsonFiles ==
    {File(TRUE, TRUE, TRUE, JsonResultList),    \* well-formed list
     File(TRUE, TRUE, TRUE, JsonResultObject),  \* well-formed object
     File(TRUE, TRUE, FALSE, <<>>),             \* invalid JSON
     File(TRUE, FALSE, TRUE, <<>>),             \* bytes that are not UTF-8
     File(TRUE, TRUE, TRUE, JsonNumber(42)),    \* root neither list nor object
     File(TRUE, TRUE, TRUE, JsonNotAList),      \* no list under the keys
     File(TRUE, TRUE, TRUE, JsonBadDuration)}   \* non-numeric duration

\* PASS test_a (0.3s) / FAILED test_b
LogTokens == <<"PASS", "test_a", "(0.3s)", "FAILED", "test_b">>

TextFiles ==
    {File(TRUE, TRUE, TRUE, LogTokens),         \* readable
     File(FALSE, TRUE, TRUE, LogTokens)}        \* cannot be opened

FileEntry(name, file) == Entry(name, "file", file, {})

\* the files a directory of the model can hold
FileEntries ==
    {FileEntry("report.xml", f) : f \in XmlFiles}
    \cup {FileEntry("suite.XML", File(TRUE, TRUE, TRUE, XmlSuites))}
    \cup {FileEntry("results.json", f) : f \in JsonFiles}
    \cup {FileEntry("ci.log", f) : f \in TextFiles}
    \cup {FileEntry("out.txt", File(TRUE, TRUE, TRUE, LogTokens))}
    \cup {FileEntry("notes.md", File(TRUE, TRUE, TRUE, LogTokens))}
    \cup {FileEntry(".xml", File(TRUE, TRUE, TRUE, XmlSuite))}

\* a directory nested in a run subdirectory, with a file of its own
NestedDirectory ==
    Entry("nested", "dir", NoFile,
          {Entry("out.txt", "file", File(TRUE, TRUE, TRUE, LogTokens), {})})

SubdirNames == {"run_a", "run_b"}

\* an entry and the directory it lies in ("" for the root)
Placements(subdirs) ==
    {[dir |-> "", entry |-> e] : e \in FileEntries}
    \cup {[dir |-> d, entry |-> e] : d \in subdirs, e \in FileEntries \cup {NestedDirectory}}

\* the directory with these subdirectories and these entries placed
Tree(subdirs, placed) ==
    [exists |-> TRUE,
     entries |-> {p.entry : p \in {q \in placed : q.dir = ""}}
                 \cup {Entry(d, "dir", NoFile,
                             {p.entry : p \in {q \in placed : q.dir = d}}) : d \in subdirs}]

InitLoader ==
    /\ config = DefaultConfig
    /\ executions = <<>>
    /\ results = <<>>
    /\ summary = NoSummary
    /\ response = NoResponse
    /\ incoming = NoCall
    /\ pc = "idle"
    /\ \/ directory = NoDirectory
       \/ \E subdirs \in SUBSET SubdirNames, k \in 0..MaxFiles :
            \E f \in [1..k -> Placements(subdirs)] :
                /\ \A i, j \in 1..k :
                      (i < j) => ~(f[i].dir = f[j].dir /\ f[i].entry.name = f[j].entry.name)
                /\ directory = Tree(subdirs, {f[i] : i \in 1..k})
    /\ pending = <<>>
    /\ all_executions = <<>>
    /\ raised = "none"
    /\ origin = <<>>
    /\ visited = <<>>
    /\ NormalizerIdle

\* load_results_from_directory up to its loops: a missing directory returns
\* the empty list; otherwise the files to parse are those of the subdirectories
\* when there is one, else those of the root
LoadStart ==
    /\ pc = "idle"
    /\ incoming = NoCall
    /\ IF ~directory.exists
       THEN /\ pc' = "loaded"
            /\ pending' = <<>>
       ELSE /\ pc' = "loading"
            /\ pending' = ParserCalls(directory)
    /\ UNCHANGED <<directory, all_executions, raised, origin, visited>>
    /\ UNCHANGED analysisVars
    /\ UNCHANGED normalizerVars

\* one iteration of a loop: all_executions.extend(_auto_detect_and_parse(...));
\* an exception of the parser leaves the loader
ParseFile(parser) ==
    /\ pc = "loading"
    /\ pending # <<>>
    /\ ParserFor(Head(pending).path) = parser
    /\ LET call == Head(pending)
           outcome == _auto_detect_and_parse(call.path, call.run_id)
       IN  /\ visited' = Append(visited, [dir |-> call.path.dir, name |-> call.path.name,
                                          parser |-> parser])
           /\ IF outcome.raised # "none"
              THEN /\ raised' = outcome.raised
                   /\ pc' = "raised"
                   /\ UNCHANGED <<pending, all_executions, origin>>
              ELSE /\ all_executions' = all_executions \o outcome.records
                   /\ origin' = origin \o [i \in DOMAIN outcome.records |->
                                              [dir |-> call.path.dir, name |-> call.path.name,
                                               parser |-> parser]]
                   /\ pending' = Tail(pending)
                   /\ UNCHANGED <<raised, pc>>
    /\ UNCHANGED directory
    /\ UNCHANGED analysisVars
    /\ UNCHANGED normalizerVars

ParseJunitXml == ParseFile("parse_junit_xml")
ParseJsonResults == ParseFile("parse_json_results")
ParseTextLog == ParseFile("parse_text_log")

\* the loops are over: return all_executions
LoadReturn ==
    /\ pc = "loading"
    /\ pending = <<>>
    /\ pc' = "loaded"
    /\ UNCHANGED loaderVars
    /\ UNCHANGED analysisVars
    /\ UNCHANGED normalizerVars

\* analyze(load_results_from_directory(directory))
AnalyzeLoaded ==
    /\ pc = "loaded"
    /\ executions' = all_executions
    /\ results' = IF all_executions = <<>> THEN <<>>
                  ELSE ClassifyAll(config, all_executions)
    /\ summary' = analyze(config, all_executions)
    /\ pc' = "analyzed"
    /\ UNCHANGED <<config, incoming, response>>
    /\ UNCHANGED loaderVars
    /\ UNCHANGED normalizerVars

\* the command line writes the summary of the loaded records as its report
WriteReport ==
    /\ pc = "analyzed"
    /\ \E flaky_orders \in Orders(summary.flaky_tests),
          failure_orders \in Orders(summary.true_failures) :
          response' = [flaky_test_summary |->
                           FlakyTestSummary_as_dict(summary, flaky_orders, failure_orders)]
    /\ pc' = "reported"
    /\ UNCHANGED <<config, executions, results, summary, incoming>>
    /\ UNCHANGED loaderVars
    /\ UNCHANGED normalizerVars

NextLoader ==
    \/ LoadStart
    \/ ParseJunitXml
    \/ ParseJsonResults
    \/ ParseTextLog
    \/ LoadReturn
    \/ AnalyzeLoaded
    \/ WriteReport

SpecLoader == InitLoader /\ [][NextLoader]_vars

\* the synonyms _normalize_status recognises, by canonical status
Synonyms ==
    [c \in CanonicalStatuses |->
        CASE c = "passed" -> {"pass", "passed", "ok", "success"}
          [] c = "failed" -> {"fail", "failed", "failure"}
          [] c = "error" -> {"error", "errored"}
          [] c = "skipped" -> {"skip", "skipped", "ignored", "pending"}]

\* words no status has as a synonym, the empty string among them
OtherWords == {"unknown", "passing", "n/a", ""}

StatusWords == UNION {Synonyms[c] : c \in CanonicalStatuses} \cup OtherWords

\* spellings of a status word: as it is, upper case, capitalised, and each of
\* the three with spaces around it
Spellings(w) ==
    CASE w = "pass" ->
            {"pass", "PASS", "Pass", " pass ", "  PASS", "Pass "}
      [] w = "passed" ->
            {"passed", "PASSED", "Passed", " passed ", "  PASSED", "Passed "}
      [] w = "ok" ->
            {"ok", "OK", "Ok", " ok ", "  OK", "Ok "}
      [] w = "success" ->
            {"success", "SUCCESS", "Success", " success ", "  SUCCESS", "Success "}
      [] w = "fail" ->
            {"fail", "FAIL", "Fail", " fail ", "  FAIL", "Fail "}
      [] w = "failed" ->
            {"failed", "FAILED", "Failed", " failed ", "  FAILED", "Failed "}
      [] w = "failure" ->
            {"failure", "FAILURE", "Failure", " failure ", "  FAILURE", "Failure "}
      [] w = "error" ->
            {"error", "ERROR", "Error", " error ", "  ERROR", "Error "}
      [] w = "errored" ->
            {"errored", "ERRORED", "Errored", " errored ", "  ERRORED", "Errored "}
      [] w = "skip" ->
            {"skip", "SKIP", "Skip", " skip ", "  SKIP", "Skip "}
      [] w = "skipped" ->
            {"skipped", "SKIPPED", "Skipped", " skipped ", "  SKIPPED", "Skipped "}
      [] w = "ignored" ->
            {"ignored", "IGNORED", "Ignored", " ignored ", "  IGNORED", "Ignored "}
      [] w = "pending" ->
            {"pending", "PENDING", "Pending", " pending ", "  PENDING", "Pending "}
      [] w = "unknown" ->
            {"unknown", "UNKNOWN", "Unknown", " unknown ", "  UNKNOWN", "Unknown "}
      [] w = "passing" ->
            {"passing", "PASSING", "Passing", " passing ", "  PASSING", "Passing "}
      [] w = "n/a" ->
            {"n/a", "N/A", "N/a", " n/a ", "  N/A", "N/a "}
      [] w = "" ->
            {"", " ", "  "}

\* the strings _normalize_status is called with
StatusTexts == UNION {Spellings(w) : w \in StatusWords}

(***************************************************************************)
(* The Status Normalizer alone: _normalize_status applied to a string, and *)
(* applied again to what it returned.                                      *)
(***************************************************************************)
InitNormalize ==
    /\ config = DefaultConfig
    /\ executions = <<>>
    /\ results = <<>>
    /\ summary = NoSummary
    /\ response = NoResponse
    /\ incoming = NoCall
    /\ pc = "idle"
    /\ LoaderIdle
    /\ raw_status \in StatusTexts
    /\ normalized = ""

NormalizeStatus ==
    /\ pc = "idle"
    /\ normalized' = _normalize_status(raw_status)
    /\ pc' = "normalized"
    /\ UNCHANGED raw_status
    /\ UNCHANGED analysisVars
    /\ UNCHANGED loaderVars

NormalizeAgain ==
    /\ pc = "normalized"
    /\ normalized' = _normalize_status(normalized)
    /\ pc' = "renormalized"
    /\ UNCHANGED raw_status
    /\ UNCHANGED analysisVars
    /\ UNCHANGED loaderVars

NextNormalize ==
    \/ NormalizeStatus
    \/ NormalizeAgain

SpecNormalize == InitNormalize /\ [][NextNormalize]_vars

(***************************************************************************)
(* The report of a request: /analyze-tests is called with the executions   *)
(* of one test, each with an error message of its own.                     *)
(***************************************************************************)
\* most distinct short error messages in a request
MaxMessages == 6

\* a message longer than the parsers let through
LongMessage == Chars(MaxMessageLength + 1)

\* the executions of t1 with error messages of these lengths, the first one
\* with the given status and the others failed
RequestWithMessages(lengths, first_status, long, blank) ==
    LET ascending == SelectSeq([i \in 1..MaxMessages |-> i], LAMBDA i : i \in lengths)
        messages == [i \in DOMAIN ascending |-> Chars(ascending[i])]
                    \o (IF long THEN <<LongMessage>> ELSE <<>>)
                    \o (IF blank THEN << <<>> >> ELSE <<>>)
    IN  [i \in DOMAIN messages |->
            TestExecution("t1", IF i = 1 THEN first_status ELSE "failed", "", messages[i])]

InitReport ==
    /\ config = DefaultConfig
    /\ executions = <<>>
    /\ results = <<>>
    /\ summary = NoSummary
    /\ response = NoResponse
    /\ \E lengths \in SUBSET (1..MaxMessages), first_status \in {"passed", "failed"},
          long \in BOOLEAN, blank \in BOOLEAN :
          incoming = [caller |-> "endpoint",
                      records |-> RequestWithMessages(lengths, first_status, long, blank)]
    /\ pc = "idle"
    /\ LoaderIdle
    /\ NormalizerIdle

NextReport == analyze_tests

SpecReport == InitReport /\ [][NextReport]_vars

(***************************************************************************)
(* Reordered collections: analyze is called on the executions of two tests *)
(* in several runs, in every order.                                        *)
(***************************************************************************)
\* longest record collection that is compared with its reorderings
MaxPermuted == 4

\* records of two tests in two runs, one of them without a run identifier
RunRecords ==
    {TestExecution("t1", "passed", "run_a", <<>>),
     TestExecution("t1", "failed", "run_a", <<>>),
     TestExecution("t1", "failed", "run_b", <<>>),
     TestExecution("t2", "error", "run_a", <<>>),
     TestExecution("t2", "skipped", "", <<>>)}

\* the default configuration, and one under which four runs are too few
PermuteConfigs == {DefaultConfig, FlakyTestConfig(FracZero, 5, Frac(1, 2))}

InitPermute ==
    /\ config \in PermuteConfigs
    /\ executions = <<>>
    /\ results = <<>>
    /\ summary = NoSummary
    /\ response = NoResponse
    /\ \E k \in 0..MaxPermuted : \E recs \in [1..k -> RunRecords] :
          incoming = [caller |-> "loader", records |-> recs]
    /\ pc = "idle"
    /\ LoaderIdle
    /\ NormalizerIdle

NextPermute == AnalyzeParsed

SpecPermute == InitPermute /\ [][NextPermute]_vars

(***************************************************************************)
(* JUnit reports: a directory with one report.xml, whose test cases carry  *)
(* any of the three markers and any time attribute, is loaded.             *)
(***************************************************************************)
\* most test cases in a report
MaxCases == 2

Markers == {"failure", "error", "skipped"}

\* a test case by what it carries: its markers and its time attribute
CaseKinds ==
    {[markers |-> ms, time |-> t] : ms \in SUBSET Markers, t \in {"absent", "0.5", "abc"}}

\* <testcase name="test_a" [time=...]> with its markers as children
TestCaseElement(kind) ==
    LET present == SelectSeq(<<"skipped", "error", "failure">>,
                             LAMBDA m : m \in kind.markers)
    IN  Element("testcase",
                IF kind.time = "absent" THEN [name |-> "test_a"]
                ELSE [name |-> "test_a", time |-> kind.time],
                <<>>,
                [i \in DOMAIN present |-> Element(present[i], NoAttrs, <<>>, <<>>)])

\* the report: one <testsuite> of the cases, or <testsuites> of two suites,
\* the first case in one and the others in the other
JunitDocument(shape, kinds) ==
    LET cases == [i \in DOMAIN kinds |-> TestCaseElement(kinds[i])]
    IN  IF shape = "testsuite"
        THEN Element("testsuite", NoAttrs, <<>>, cases)
        ELSE Element("testsuites", NoAttrs, <<>>,
                     <<Element("testsuite", NoAttrs, <<>>,
                               [i \in DOMAIN cases \cap {1} |-> cases[i]]),
                       Element("testsuite", NoAttrs, <<>>,
                               [i \in 1..(Len(cases) - 1) |-> cases[i + 1]])>>)

InitJunit ==
    /\ config = DefaultConfig
    /\ executions = <<>>
    /\ results = <<>>
    /\ summary = NoSummary
    /\ response = NoResponse
    /\ incoming = NoCall
    /\ pc = "idle"
    /\ \E shape \in {"testsuite", "testsuites"}, k \in 0..MaxCases :
          \E kinds \in [1..k -> CaseKinds] :
              directory = Tree({}, {[dir |-> "",
                                     entry |-> FileEntry("report.xml",
                                                  File(TRUE, TRUE, TRUE,
                                                       JunitDocument(shape, kinds)))]})
    /\ pending = <<>>
    /\ all_executions = <<>>
    /\ raised = "none"
    /\ origin = <<>>
    /\ visited = <<>>
    /\ NormalizerIdle

NextJunit ==
    \/ LoadStart
    \/ ParseJunitXml
    \/ LoadReturn

SpecJunit == InitJunit /\ [][NextJunit]_vars

(***************************************************************************)
(* Properties of the analysis runs (Spec).                                 *)
(***************************************************************************)
Returned == pc \in {"responded", "analyzed"}

CountsSum(r) == r.pass_count + r.fail_count + r.error_count + r.skip_count
EffectiveRuns(r) == r.pass_count + r.fail_count + r.error_count
CombinedFails(r) == r.fail_count + r.error_count
Identities(execs) == {execs[i].test_name : i \in DOMAIN execs}
Categories == {"flaky", "true_failure", "stable", "always_skipped"}
NumberWith(rs, c) == Cardinality({i \in DOMAIN rs : rs[i].classification = c})

\* C1: in every Per-Test Result analyze produces, the four counts add up to
\* total_runs, whoever supplied the records (a parser or the endpoint).
C1_CountsSumToTotalRuns ==
    Returned => \A i \in DOMAIN results : CountsSum(results[i]) = results[i].total_runs

\* C2: after analyze on a non-empty collection every distinct test identity has
\* exactly one Per-Test Result, in exactly one of the four categories, and
\* total_tests_analyzed = len(flaky_tests) + len(true_failures) + stable_tests
\* + always_skipped = the number of distinct test identities of the input.
C2_ExhaustivePartition ==
    (Returned /\ executions # <<>>) =>
        /\ \A n \in Identities(executions) :
              Cardinality({i \in DOMAIN results : results[i].test_name = n}) = 1
        /\ \A i \in DOMAIN results :
              /\ results[i].test_name \in Identities(executions)
              /\ results[i].classification \in Categories
        /\ Len(summary.flaky_tests) = NumberWith(results, "flaky")
        /\ Len(summary.true_failures) = NumberWith(results, "true_failure")
        /\ summary.stable_tests = NumberWith(results, "stable")
        /\ summary.always_skipped = NumberWith(results, "always_skipped")
        /\ summary.total_tests_analyzed =
              Len(summary.flaky_tests) + Len(summary.true_failures)
              + summary.stable_tests + summary.always_skipped
        /\ summary.total_tests_analyzed = Cardinality(Identities(executions))

\* C2's case: three identities over more than three records, one flaky, one
\* true failure and one always skipped
C2_Witness ==
    /\ Returned
    /\ Len(executions) > Cardinality(Identities(executions))
    /\ summary.total_tests_analyzed = 3
    /\ Len(summary.flaky_tests) = 1
    /\ Len(summary.true_failures) = 1
    /\ summary.always_skipped = 1

\* C7: flaky_tests is ordered by flakiness_score descending, holds only flaky
\* results, and true_failures holds only true_failure results.
C7_FlakySortedDescending ==
    Returned =>
        /\ \A i \in 1..(Len(summary.flaky_tests) - 1) :
              FracLeq(summary.flaky_tests[i + 1].flakiness_score,
                      summary.flaky_tests[i].flakiness_score)
        /\ \A i \in DOMAIN summary.flaky_tests :
              summary.flaky_tests[i].classification = "flaky"
        /\ \A i \in DOMAIN summary.true_failures :
              summary.true_failures[i].classification = "true_failure"

\* C7's case: two flaky results of different score that were classified in
\* ascending order, so the sort moved them
C7_Witness ==
    /\ Returned
    /\ Len(summary.flaky_tests) = 2
    /\ FracLess(summary.flaky_tests[2].flakiness_score,
                summary.flaky_tests[1].flakiness_score)
    /\ WithClassification(results, "flaky")[1] = summary.flaky_tests[2]

(***************************************************************************)
(* Properties of the classifier (SpecClassify).                            *)
(***************************************************************************)
Classified == pc = "classified"
Result == results[1]

\* the sufficient-samples rule, on whole numbers: fail_rate >= t is
\* combined_fails * t.den >= t.num * effective_runs
SufficientSamplesRule(cfg, r) ==
    IF CombinedFails(r) * cfg.true_failure_threshold.den
          >= cfg.true_failure_threshold.num * EffectiveRuns(r)
    THEN "true_failure"
    ELSE IF /\ FracLess(cfg.flakiness_threshold, r.flakiness_score)
            /\ CombinedFails(r) > 0
            /\ r.pass_count > 0
         THEN "flaky"
    ELSE "stable"

\* C3 as claimed: whenever effective_runs >= min_runs_required the
\* classification is true_failure / flaky / stable by the threshold rule.
C3_SufficientSamples_AsClaimed ==
    Classified =>
        (EffectiveRuns(Result) >= config.min_runs_required
            => Result.classification = SufficientSamplesRule(config, Result))

\* C3 amended: whenever effective_runs > 0 and effective_runs >=
\* min_runs_required the classification is true_failure if fail_rate >=
\* true_failure_threshold, else flaky if flakiness_score > flakiness_threshold
\* and combined_fails > 0 and pass_count > 0, else stable.
C3_SufficientSamples ==
    Classified =>
        ((EffectiveRuns(Result) > 0 /\ EffectiveRuns(Result) >= config.min_runs_required)
            => Result.classification = SufficientSamplesRule(config, Result))

\* C3's case: the boundary effective_runs = min_runs_required with a mix of
\* passes and failures that the flakiness threshold keeps stable
C3_Witness ==
    /\ Classified
    /\ EffectiveRuns(Result) = config.min_runs_required
    /\ Result.pass_count > 0
    /\ CombinedFails(Result) > 0
    /\ Result.classification = "stable"

\* C4: when 0 < effective_runs < min_runs_required the classification is
\* true_failure if combined_fails = effective_runs, stable if combined_fails
\* = 0, flaky otherwise, and is the same under every pair of thresholds.
C4_LowConfidenceRule ==
    Classified =>
        ((0 < EffectiveRuns(Result) /\ EffectiveRuns(Result) < config.min_runs_required)
            => /\ Result.classification =
                    (IF CombinedFails(Result) = EffectiveRuns(Result) THEN "true_failure"
                     ELSE IF CombinedFails(Result) = 0 THEN "stable"
                     ELSE "flaky")
               /\ \A ft \in Thresholds, tft \in Thresholds :
                    _classify_test(FlakyTestConfig(ft, config.min_runs_required, tft),
                                   "t1", executions).classification
                        = Result.classification)

\* C4's case: a mixed history below min_runs_required called flaky although
\* its score does not exceed the flakiness threshold
C4_Witness ==
    /\ Classified
    /\ 0 < EffectiveRuns(Result)
    /\ EffectiveRuns(Result) < config.min_runs_required
    /\ Result.classification = "flaky"
    /\ FracLeq(Result.flakiness_score, config.flakiness_threshold)

MinOf(a, b) == IF a < b THEN a ELSE b

ScoreFormula(r) ==
    /\ EffectiveRuns(r) = 0 => FracEq(r.flakiness_score, FracZero)
    /\ EffectiveRuns(r) > 0 =>
          FracEq(r.flakiness_score,
                 Frac(2 * MinOf(r.pass_count, CombinedFails(r)), EffectiveRuns(r)))
    /\ FracLeq(FracZero, r.flakiness_score)
    /\ FracLeq(r.flakiness_score, FracOne)
    /\ FracEq(r.flakiness_score, FracZero) <=> (r.pass_count = 0 \/ CombinedFails(r) = 0)

\* C5 as claimed: the score is 0 when effective_runs = 0 and otherwise
\* 2 * min(pass_count, combined_fails) / effective_runs; it lies in [0,1], is 0
\* exactly when the non-skipped executions are all passes or all
\* failures/errors, and is 1 exactly when pass_count = combined_fails.
C5_FlakinessScore_AsClaimed ==
    Classified =>
        /\ ScoreFormula(Result)
        /\ FracEq(Result.flakiness_score, FracOne)
              <=> Result.pass_count = CombinedFails(Result)

\* C5 amended: as claimed, except that the score is 1 exactly when pass_count
\* = combined_fails and effective_runs > 0.
C5_FlakinessScore ==
    Classified =>
        /\ ScoreFormula(Result)
        /\ FracEq(Result.flakiness_score, FracOne)
              <=> (Result.pass_count = CombinedFails(Result) /\ EffectiveRuns(Result) > 0)

\* C5's case: an even split over more than two executions, one of them an error
C5_Witness ==
    /\ Classified
    /\ Result.error_count > 0
    /\ Result.skip_count > 0
    /\ Result.pass_count = CombinedFails(Result)
    /\ FracEq(Result.flakiness_score, FracOne)

\* C6: a test is always_skipped if and only if effective_runs = 0, under every
\* configuration, and its flakiness_score is then 0.
C6_AlwaysSkipped ==
    Classified =>
        /\ Result.classification = "always_skipped" <=> EffectiveRuns(Result) = 0
        /\ Result.classification = "always_skipped"
              => FracEq(Result.flakiness_score, FracZero)

\* C6's case: only skips, under a configuration whose min_runs_required is
\* above the number of executions
C6_Witness ==
    /\ Classified
    /\ Result.skip_count = Result.total_runs
    /\ Result.total_runs > 1
    /\ Result.total_runs < config.min_runs_required
    /\ Result.classification = "always_skipped"

(***************************************************************************)
(* Properties of the loader runs (SpecLoader).                             *)
(***************************************************************************)
\* what the parser chosen for a path ends with
Outcome(call) == _auto_detect_and_parse(call.path, call.run_id)

\* a file with a parse failure: it cannot be opened, or (XML, JSON) its bytes
\* do not decode or are not well-formed, or its parser raises on it (a root
\* that is neither list nor object, a time or duration that is no number)
Malformed(call) ==
    \/ ~call.path.file.readable
    \/ /\ ParserFor(call.path) # "parse_text_log"
       /\ ~call.path.file.decodable \/ ~call.path.file.wellformed
    \/ Outcome(call).raised # "none"

\* the parser call a record of all_executions came from
CallOf(o) ==
    CHOOSE c \in {ParserCalls(directory)[i] : i \in DOMAIN ParserCalls(directory)} :
        c.path.dir = o.dir /\ c.path.name = o.name

\* C8: no parser raises: every parser call the loader makes returns a list,
\* and a file that cannot be opened, decoded or parsed contributes no record.
C8_ParsersNeverRaise ==
    /\ raised = "none"
    /\ \A i \in DOMAIN origin : ~Malformed(CallOf(origin[i]))

\* the records of the well-formed files among the calls, in visiting order
RecordsOfWellFormed(calls) ==
    Flatten([i \in DOMAIN calls |->
                IF Malformed(calls[i]) THEN <<>> ELSE Outcome(calls[i]).records])

\* C9: the loader never fails on a malformed file: it returns exactly the
\* records of the well-formed accepted files, and when every accepted file is
\* malformed it returns the empty list, whose analysis has
\* total_tests_analyzed = 0.
C9_FaultIsolation ==
    /\ pc # "raised"
    /\ pc \in {"loaded", "analyzed"} =>
          all_executions = RecordsOfWellFormed(ParserCalls(directory))
    /\ (pc = "analyzed"
          /\ \A i \in DOMAIN ParserCalls(directory) : Malformed(ParserCalls(directory)[i]))
       => summary.total_tests_analyzed = 0

\* C10: with at least one subdirectory in the root, every record the loader
\* emits carries the name of the subdirectory holding its file as run
\* identifier (whatever the file's base name is); with none, every record
\* carries the base name, without extension, of its file.
C10_RunIdentifier ==
    \A i \in DOMAIN all_executions :
        IF \E e \in directory.entries : e.kind = "dir"
        THEN /\ origin[i].dir \in {e.name : e \in {f \in directory.entries : f.kind = "dir"}}
             /\ all_executions[i].run_id = origin[i].dir
        ELSE /\ origin[i].dir = ""
             /\ all_executions[i].run_id = PathStem(origin[i].name)

\* C10's case: two run subdirectories, each with a file that yielded records
C10_Witness ==
    /\ pc = "loaded"
    /\ \E i, j \in DOMAIN all_executions :
          /\ origin[i].dir = "run_a"
          /\ origin[j].dir = "run_b"
          /\ all_executions[i].run_id = "run_a"
          /\ all_executions[j].run_id = "run_b"
          /\ PathStem(origin[i].name) # "run_a"

\* the files the layout and the extensions select: those directly inside the
\* immediate subdirectories when the root has one, else those of the root
SelectedFiles ==
    LET subdirs == {e \in directory.entries : e.kind = "dir"}
        selected(entries) ==
            {e \in entries : e.kind = "file"
                              /\ StrLower(PathSuffix(e.name)) \in {".xml", ".json", ".log", ".txt"}}
    IN  IF subdirs # {}
        THEN UNION {{[dir |-> d.name, name |-> e.name] : e \in selected(d.entries)} : d \in subdirs}
        ELSE {[dir |-> "", name |-> e.name] : e \in selected(directory.entries)}

VisitedFiles == {[dir |-> visited[i].dir, name |-> visited[i].name] : i \in DOMAIN visited}

\* the parser the extension of a name selects
Dispatched(name) ==
    LET ext == StrLower(PathSuffix(name))
    IN  CASE ext = ".xml" -> "parse_junit_xml"
          [] ext = ".json" -> "parse_json_results"
          [] ext \in {".log", ".txt"} -> "parse_text_log"
          [] OTHER -> "none"

\* the visits so far select only selected files, each once, each with the
\* parser of its extension, subdirectories and files in ascending name order
VisitsInOrder ==
    /\ VisitedFiles \subseteq SelectedFiles
    /\ \A i \in DOMAIN visited : visited[i].parser = Dispatched(visited[i].name)
    /\ \A i, j \in DOMAIN visited :
          (i < j) => \/ /\ visited[i].dir # visited[j].dir
                        /\ NameRank(visited[i].dir) < NameRank(visited[j].dir)
                     \/ /\ visited[i].dir = visited[j].dir
                        /\ NameRank(visited[i].name) < NameRank(visited[j].name)

\* C11: when the loader is over, the files it parsed are exactly the files
\* the layout and the extensions select (those directly inside the immediate
\* subdirectories if the root has one, else those of the root), each by the
\* parser of its extension, visited in ascending name order.
C11_ParsedFilesByLayoutAndExtension ==
    /\ VisitsInOrder
    /\ pc \in {"loaded", "raised", "analyzed"} => VisitedFiles = SelectedFiles

\* the same for the calls in which no parser raises, and the order and the
\* dispatch of the visits in every call
ParsedFilesUnlessRaised ==
    /\ VisitsInOrder
    /\ pc \in {"loaded", "analyzed"} => VisitedFiles = SelectedFiles

(***************************************************************************)
(* Properties of the Status Normalizer (SpecNormalize).                    *)
(***************************************************************************)
\* the status whose synonym the string spells, "failed" when it spells none
StatusSpelled(s) ==
    IF \E c \in CanonicalStatuses : \E w \in Synonyms[c] : s \in Spellings(w)
    THEN CHOOSE c \in CanonicalStatuses : \E w \in Synonyms[c] : s \in Spellings(w)
    ELSE "failed"

\* C12: _normalize_status maps every string to one of the four canonical
\* statuses: a synonym to its status whatever its letter case and the
\* whitespace around it, every other string (the empty one included) to
\* failed; applied to its own result it returns that result.
C12_NormalizerTotalIdempotent ==
    pc \in {"normalized", "renormalized"} =>
        /\ normalized \in CanonicalStatuses
        /\ normalized = StatusSpelled(raw_status)
        /\ \A c \in CanonicalStatuses : _normalize_status(c) = c

C12_Witness ==
    /\ pc = "renormalized"
    /\ raw_status = "  SKIPPED"
    /\ normalized = "skipped"

(***************************************************************************)
(* Properties of the summary of the loaded records (SpecLoader).           *)
(***************************************************************************)
\* the distinct non-empty run identifiers of a record collection
RunIdentifiers(execs) == {execs[i].run_id : i \in DOMAIN execs} \ {""}

\* C13: the summary of every analysis call carries a metadata block with the
\* number of executions ingested, the number of distinct non-empty run
\* identifiers and the three configuration values, the call on an empty
\* record collection included (0 executions, 0 runs, configuration echoed).
C13_MetadataBlock ==
    pc = "analyzed" =>
        /\ DOMAIN summary.metadata = {"total_executions", "unique_runs", "config"}
        /\ summary.metadata.total_executions = Len(executions)
        /\ summary.metadata.unique_runs = Cardinality(RunIdentifiers(executions))
        /\ summary.metadata.config.flakiness_threshold = config.flakiness_threshold
        /\ summary.metadata.config.min_runs_required = config.min_runs_required
        /\ summary.metadata.config.true_failure_threshold = config.true_failure_threshold

\* the same for the calls on a non-empty record collection
MetadataBlockOfNonEmpty ==
    (pc = "analyzed" /\ executions # <<>>) =>
        /\ DOMAIN summary.metadata = {"total_executions", "unique_runs", "config"}
        /\ summary.metadata.total_executions = Len(executions)
        /\ summary.metadata.unique_runs = Cardinality(RunIdentifiers(executions))
        /\ summary.metadata.config.flakiness_threshold = config.flakiness_threshold
        /\ summary.metadata.config.min_runs_required = config.min_runs_required
        /\ summary.metadata.config.true_failure_threshold = config.true_failure_threshold

(***************************************************************************)
(* Properties of the reports (SpecReport, SpecLoader).                     *)
(***************************************************************************)
\* the flaky and true-failure entries of the summary output
ReportedEntries ==
    LET out == response.flaky_test_summary
    IN  {out.flaky_tests[i] : i \in DOMAIN out.flaky_tests}
        \cup {out.true_failures[i] : i \in DOMAIN out.true_failures}

\* C14: in the summary output every flaky and true-failure entry lists at
\* most 5 error messages, none of them empty and none longer than 500
\* characters, whether the records came from a parser or from a caller.
C14_ReportCaps ==
    pc \in {"responded", "reported"} =>
        \A entry \in ReportedEntries :
            /\ Cardinality(entry.error_messages) <= 5
            /\ \A m \in entry.error_messages : m # <<>> /\ Len(m) <= 500

\* the cap on the number of messages alone: at most 5, none empty
ReportListsFiveAtMost ==
    pc \in {"responded", "reported"} =>
        \A entry \in ReportedEntries :
            /\ Cardinality(entry.error_messages) <= 5
            /\ \A m \in entry.error_messages : m # <<>>

\* an entry of more than five messages is reported with five
FiveOfMoreListed ==
    /\ pc = "responded"
    /\ \E i \in DOMAIN summary.true_failures :
          /\ Cardinality(summary.true_failures[i].error_messages) > 5
          /\ Cardinality(response.flaky_test_summary.true_failures[i].error_messages) = 5

\* a parsed message of more than 500 characters is reported with 500
LongParsedMessageCut ==
    /\ pc = "reported"
    /\ \E entry \in ReportedEntries : \E m \in entry.error_messages : Len(m) = 500

(***************************************************************************)
(* Properties of reordered collections (SpecPermute).                      *)
(***************************************************************************)
\* what the claim compares of one result
Outcome15(r) ==
    [test_name |-> r.test_name,
     total_runs |-> r.total_runs,
     pass_count |-> r.pass_count,
     fail_count |-> r.fail_count,
     error_count |-> r.error_count,
     skip_count |-> r.skip_count,
     flakiness_score |-> r.flakiness_score,
     classification |-> r.classification,
     fail_run_ids |-> r.fail_run_ids,
     pass_run_ids |-> r.pass_run_ids]

\* the outcomes of a list of results, one for each test identity
OutcomesOf(rs) == <<Len(rs), {Outcome15(rs[i]) : i \in DOMAIN rs}>>

\* what the claim compares of a summary
SummaryCounts(s) ==
    <<s.total_tests_analyzed, Len(s.flaky_tests), Len(s.true_failures),
      s.stable_tests, s.always_skipped, s.overall_flakiness_rate>>

Reordered(execs, p) == [i \in DOMAIN execs |-> execs[p[i]]]

\* C15: for every permutation of the record collection analyze gives each
\* test identity the same total_runs, counts, flakiness_score,
\* classification and sets of fail and pass run identifiers, and the summary
\* the same counts and the same overall_flakiness_rate.
C15_OrderIndependent ==
    (pc = "analyzed" /\ executions # <<>>) =>
        \A p \in Permutations(DOMAIN executions) :
            LET other == Reordered(executions, p)
            IN  /\ OutcomesOf(ClassifyAll(config, other)) = OutcomesOf(results)
                /\ SummaryCounts(analyze(config, other)) = SummaryCounts(summary)

\* two tests whose records alternate, one flaky and one a true failure
C15_Witness ==
    /\ pc = "analyzed"
    /\ Len(executions) = 4
    /\ executions[1].test_name = "t1"
    /\ executions[2].test_name = "t2"
    /\ executions[3].test_name = "t1"
    /\ executions[4].test_name = "t2"
    /\ Len(summary.flaky_tests) = 1
    /\ Len(summary.true_failures) = 1
    /\ summary.flaky_tests[1].fail_run_ids # {}

(***************************************************************************)
(* Properties of the generated scenarios (Spec).                           *)
(***************************************************************************)
\* C16: generate_tests returns len(flaky_tests) + len(true_failures) blocks,
\* first one per flaky result in the order of flaky_tests, then one per true
\* failure in the order of true_failures, each naming the test of its
\* result, and the summary it was given is as analyze returned it.
C16_ScenarioBlocks ==
    pc = "responded" =>
        LET blocks == response.test_scenarios
            flaky == analyze(config, executions).flaky_tests
            failures == analyze(config, executions).true_failures
        IN  /\ Len(blocks) = Len(flaky) + Len(failures)
            /\ \A i \in DOMAIN flaky :
                  /\ blocks[i].feature = "Flaky test"
                  /\ blocks[i].test_name = flaky[i].test_name
            /\ \A i \in DOMAIN failures :
                  /\ blocks[Len(flaky) + i].feature = "True failure"
                  /\ blocks[Len(flaky) + i].test_name = failures[i].test_name
            /\ summary = analyze(config, executions)

\* a flaky test and a true failure of different names, the true failure's
\* records first in the request
C16_Witness ==
    /\ pc = "responded"
    /\ Len(summary.flaky_tests) = 1
    /\ Len(summary.true_failures) = 1
    /\ executions[1].test_name = summary.true_failures[1].test_name
    /\ Len(response.test_scenarios) = 2
    /\ response.test_scenarios[1].test_name = summary.flaky_tests[1].test_name

(***************************************************************************)
(* Properties of the JUnit parser (SpecJunit).                             *)
(***************************************************************************)
\* the test cases of the report, suite by suite
ReportedCases ==
    LET doc == (CHOOSE e \in directory.entries : e.name = "report.xml").file.doc
        suites == IF doc.tag = "testsuites" THEN doc.children ELSE <<doc>>
    IN  Flatten([i \in DOMAIN suites |-> suites[i].children])

Carries(tc, marker) == \E i \in DOMAIN tc.children : tc.children[i].tag = marker

\* the status the priority of the markers gives a case
StatusByPriority(tc) ==
    IF Carries(tc, "failure") THEN "failed"
    ELSE IF Carries(tc, "error") THEN "error"
    ELSE IF Carries(tc, "skipped") THEN "skipped"
    ELSE "passed"

RecordsMatchCases ==
    /\ Len(all_executions) = Len(ReportedCases)
    /\ \A i \in DOMAIN all_executions :
          all_executions[i].status = StatusByPriority(ReportedCases[i])
    /\ \A st \in CanonicalStatuses :
          CountStatus(all_executions, st) =
              Cardinality({i \in DOMAIN ReportedCases :
                              StatusByPriority(ReportedCases[i]) = st})

\* C17: parsing a report gives exactly one record per test case of each
\* suite, with status failed if the case carries a failure marker, else error
\* if an error marker, else skipped if a skip marker, else passed, so the
\* status counts of the records are those of the cases.
C17_OneRecordPerCase ==
    visited # <<>> => RecordsMatchCases

\* the same for the reports the parser returns from
OneRecordPerCaseUnlessRaised ==
    (visited # <<>> /\ raised = "none") => RecordsMatchCases

\* a case carrying all three markers is recorded once, as failed
SeveralMarkersOneRecord ==
    /\ pc = "loaded"
    /\ Len(all_executions) = 2
    /\ \E i \in DOMAIN ReportedCases :
          /\ Cardinality({j \in DOMAIN ReportedCases[i].children : TRUE}) = 3
          /\ all_executions[i].status = "failed"

(***************************************************************************)
(* Properties of the classifier under valid configurations (SpecClassify). *)
(***************************************************************************)
\* both thresholds in [0, 1] and min_runs_required >= 1
ValidConfig(cfg) ==
    /\ FracLeq(FracZero, cfg.flakiness_threshold)
    /\ FracLeq(cfg.flakiness_threshold, FracOne)
    /\ FracLeq(FracZero, cfg.true_failure_threshold)
    /\ FracLeq(cfg.true_failure_threshold, FracOne)
    /\ cfg.min_runs_required >= 1

\* a test all of whose non-skipped executions passed is stable; a flaky test
\* has passes, failures and a positive score
FailuresBehindTheClass(r) ==
    /\ (CombinedFails(r) = 0 /\ r.pass_count > 0) => r.classification = "stable"
    /\ r.classification = "true_failure" => CombinedFails(r) > 0
    /\ r.classification = "flaky" =>
          /\ r.pass_count > 0
          /\ CombinedFails(r) > 0
          /\ FracLess(FracZero, r.flakiness_score)

\* C18 as claimed: under every configuration with thresholds in [0, 1] and
\* min_runs_required >= 1, a test whose non-skipped executions all passed is
\* stable and never true_failure, and a flaky test has pass_count > 0,
\* combined_fails > 0 and flakiness_score > 0.
C18_TrueFailureNeedsFailure_AsClaimed ==
    (Classified /\ ValidConfig(config)) => FailuresBehindTheClass(Result)

\* C18 amended: the same under the configurations whose
\* true_failure_threshold is greater than 0.
C18_TrueFailureNeedsFailure ==
    (Classified /\ ValidConfig(config) /\ FracLess(FracZero, config.true_failure_threshold))
        => FailuresBehindTheClass(Result)

\* C18's case: enough runs, all passed, under a valid configuration whose
\* flakiness threshold is 0
C18_Witness ==
    /\ Classified
    /\ ValidConfig(config)
    /\ FracLess(FracZero, config.true_failure_threshold)
    /\ FracEq(config.flakiness_threshold, FracZero)
    /\ CombinedFails(Result) = 0
    /\ Result.pass_count >= config.min_runs_required
    /\ Result.classification = "stable"
====
